---- MODULE Spec2Model ----
(***************************************************************************)
(* State-machine model of the octfusion data pipeline                      *)
(* (datasets/dualoctree_snet.py: ReadFile, TransformShape) and of the      *)
(* drivers in train.py (train_main_worker, generate).                      *)
(*                                                                         *)
(* Numbers.  Every real number is an exact rational <<n, d>> with d > 0.   *)
(* Raw coordinates are small integers and point_scale is a power of two,   *)
(* so every quotient the code computes is exactly representable in single  *)
(* precision and .float() changes no value.                                *)
(*                                                                         *)
(* Mappings.  A Python dict is a function whose domain is a set of         *)
(* strings.                                                                *)
(***************************************************************************)
EXTENDS Integers, Sequences, FiniteSets, TLC

VARIABLES
    flags,        \* the configuration flags shared by ReadFile and TransformShape
    files,        \* the files of the shape directory that can be deserialized
    shape,        \* which shape record `filename` names
    pc,           \* position inside ReadFile.__call__ / TransformShape.__call__
    err,          \* the exception that ended the call ("" when none)
    printed,      \* what the call printed
    raw,          \* ReadFile.__call__'s local `raw`
    read_output,  \* ReadFile.__call__'s local `output`
    sample,       \* TransformShape.__call__'s argument
    output,       \* TransformShape.__call__'s local `output`
    sdf_samples,  \* TransformShape.__call__'s local `sdf_samples`
    on_surf,      \* TransformShape.__call__'s local `on_surf`
    off_surf,     \* TransformShape.__call__'s local `off_surf`
    result,       \* the value TransformShape.__call__ returned
    returned,     \* the calls that returned normally
    opt,          \* the options train_main_worker / generate run under
    train_pc,     \* train_main_worker: each rank's position in the loop body
    iter_i,       \* train_main_worker: each rank's iter_i
    epoch,        \* train_main_worker: each rank's local `epoch`
    data,         \* train_main_worker: the batch each rank last handed to the model
    lr_epoch,     \* the epoch each rank last passed to update_learning_rate_cos
    gen_pc,       \* generate: each rank's position
    gen_iter,     \* generate: each rank's iter_i
    loads,        \* generate: the indices whose split file a rank tried to load
    sampled       \* generate: how often model.sample ran with each save_index

dataVars == <<flags, files, shape, pc, err, printed, raw, read_output, sample,
              output, sdf_samples, on_surf, off_surf, result, returned>>

trainVars == <<train_pc, iter_i, epoch, data, lr_epoch>>

genVars == <<gen_pc, gen_iter, loads, sampled>>

driverVars == <<opt, trainVars, genVars>>

vars == <<dataVars, driverVars>>

(***************************************************************************)
(* Bounds                                                                  *)
(***************************************************************************)
MaxSample == 2      \* point_sample_num ranges over 1..MaxSample
MaxMissing == 1     \* at most this many files of a shape directory are unreadable

PointScales == {1, 2}

(***************************************************************************)
(* Rationals and rows                                                      *)
(***************************************************************************)
Rat(n) == <<n, 1>>

RatEq(a, b) == a[1] * b[2] = b[1] * a[2]

RatLe(a, b) == a[1] * b[2] <= b[1] * a[2]

\* numpy / torch: array / scalar, elementwise
DivRat(a, s) == <<a[1], a[2] * s>>

DivRow(row, s) == [c \in DOMAIN row |-> DivRat(row[c], s)]

DivRows(rows, s) == [k \in DOMAIN rows |-> DivRow(rows[k], s)]

\* numpy fancy indexing: rows[rand_idx]; rand_idx holds 0-based indices
Gather(rows, rand_idx) == [k \in DOMAIN rand_idx |-> rows[rand_idx[k] + 1]]

\* torch.zeros(n), -1 * torch.ones(n)
Zeros(n) == [k \in 1..n |-> Rat(0)]

MinusOnes(n) == [k \in 1..n |-> Rat(-1)]

\* np.random.choice(m, size=n): every sequence of n indices in [0, m)
RandomChoice(m, n) == [1..n -> 0..(m - 1)]

(***************************************************************************)
(* Mappings                                                                *)
(***************************************************************************)
EmptyDict == [k \in {} |-> k]

\* output = {key: v}: the mapping is replaced instead of extended
PutAlone(m, key, v) == [k \in {key} |-> v]

\* output[key] = v
Put(m, key, v) == [k \in DOMAIN m \cup {key} |-> IF k = key THEN v ELSE m[k]]

\* the keys already present win over the new ones
UpdateKeepsOld(m, n) ==
    [k \in DOMAIN m \cup DOMAIN n |-> IF k \in DOMAIN m THEN m[k] ELSE n[k]]

\* m.update(n)
Update(m, n) == [k \in DOMAIN m \cup DOMAIN n |-> IF k \in DOMAIN n THEN n[k] ELSE m[k]]


(***************************************************************************)
(* The shape records on disk (spec section 6: persisted shape record       *)
(* layout).  A shape directory holds up to seven files; FileContent is     *)
(* what deserializing one of them yields.                                  *)
(***************************************************************************)
FileNames == {"octree.pth", "pointcloud.npz", "color.npz", "split_small.pth",
              "split_large.pth", "points.npz", "sdf.npz"}

Shapes == {"shapeA", "shapeB", "shapeEmpty"}

R3(x, y, z) == <<Rat(x), Rat(y), Rat(z)>>

PointCloudOf(s) ==
    IF s = "shapeA"
    THEN [points  |-> <<R3(2, 0, 0), R3(3, -1, 0)>>,
          normals |-> <<R3(1, 0, 0), R3(0, -1, 0)>>]
    ELSE IF s = "shapeB"
    THEN [points  |-> <<R3(0, 1, -2)>>,
          normals |-> <<R3(0, 0, -1)>>]
    ELSE [points |-> <<>>, normals |-> <<>>]

ColorsOf(s) ==
    IF s = "shapeA" THEN <<R3(1, 0, 0), R3(0, 1, 0)>>
    ELSE IF s = "shapeB" THEN <<R3(0, 0, 1)>>
    ELSE <<>>

SdfFieldOf(s) ==
    IF s = "shapeA"
    THEN [points |-> <<R3(1, 0, 0), R3(0, -2, 0)>>,
          grad   |-> <<R3(1, 0, 0), R3(0, -1, 0)>>,
          sdf    |-> <<Rat(1), Rat(-2)>>]
    ELSE IF s = "shapeB"
    THEN [points |-> <<R3(0, 0, 3), R3(1, 1, 0), R3(-1, 0, 0)>>,
          grad   |-> <<R3(0, 0, 1), R3(0, 1, 0), R3(-1, 0, 0)>>,
          sdf    |-> <<Rat(3), Rat(0), Rat(-1)>>]
    ELSE [points |-> <<>>, grad |-> <<>>, sdf |-> <<>>]

OccuOf(s) ==
    IF s = "shapeA"
    THEN [points |-> <<R3(0, 0, 0), R3(2, 2, 2)>>, occupancies |-> <<1, 0>>]
    ELSE IF s = "shapeB"
    THEN [points |-> <<R3(1, 0, 0)>>, occupancies |-> <<1>>]
    ELSE [points |-> <<>>, occupancies |-> <<>>]

\* a deserialized object, named by the shape and file it was read from
Loaded(s, file) == [shape |-> s, file |-> file]

\* the local `raw` before its first assignment
Unbound == [shape |-> "", file |-> ""]

NoneValue == [present |-> FALSE, rows |-> <<>>]

Array(rows) == [present |-> TRUE, rows |-> rows]

NoError == [type |-> "", in |-> ""]

NoSamples == [pos |-> <<>>, sdf |-> <<>>, grad |-> <<>>]

\* no driver of train.py is running
IdleDrivers ==
    /\ opt = EmptyDict
    /\ train_pc = <<>>
    /\ iter_i = <<>>
    /\ epoch = <<>>
    /\ data = <<>>
    /\ lr_epoch = <<>>
    /\ gen_pc = <<>>
    /\ gen_iter = <<>>
    /\ loads = {}
    /\ sampled = <<>>

(***************************************************************************)
(* ReadFile.__call__, one action per flag-gated block                      *)
(***************************************************************************)
Raise(type, where) ==
    /\ err' = [type |-> type, in |-> where]
    /\ pc' = "raised"

Goto(label) ==
    /\ pc' = label
    /\ err' = err

transformLocals == <<sample, output, sdf_samples, on_surf, off_surf, result>>

ReadOctree ==
    /\ pc = "read_octree"
    /\ IF flags.load_octree
       THEN IF "octree.pth" \in files
            THEN /\ raw' = Loaded(shape, "octree.pth")
                 /\ read_output' = Put(read_output, "octree_in", [octree_of |-> shape])
                 /\ Goto("read_pointcloud")
            ELSE /\ Raise("FileNotFoundError", "ReadFile")
                 /\ UNCHANGED <<raw, read_output>>
       ELSE /\ Goto("read_pointcloud")
            /\ UNCHANGED <<raw, read_output>>
    /\ UNCHANGED <<driverVars, flags, files, shape, printed, returned, transformLocals>>

ReadPointcloud ==
    /\ pc = "read_pointcloud"
    /\ IF flags.load_pointcloud
       THEN IF "pointcloud.npz" \notin files
            THEN /\ Raise("FileNotFoundError", "ReadFile")
                 /\ UNCHANGED <<raw, read_output>>
            ELSE IF flags.load_color
                 THEN IF "color.npz" \notin files
                      THEN /\ Raise("FileNotFoundError", "ReadFile")
                           /\ raw' = Loaded(shape, "pointcloud.npz")
                           /\ UNCHANGED read_output
                      ELSE /\ raw' = Loaded(shape, "color.npz")
                           /\ read_output' = Put(read_output, "point_cloud",
                                  [points  |-> PointCloudOf(shape).points,
                                   normals |-> PointCloudOf(shape).normals,
                                   colors  |-> Array(ColorsOf(shape))])
                           /\ Goto("read_split_small")
                 ELSE /\ raw' = Loaded(shape, "pointcloud.npz")
                      /\ read_output' = Put(read_output, "point_cloud",
                             [points  |-> PointCloudOf(shape).points,
                              normals |-> PointCloudOf(shape).normals,
                              colors  |-> NoneValue])
                      /\ Goto("read_split_small")
       ELSE /\ Goto("read_split_small")
            /\ UNCHANGED <<raw, read_output>>
    /\ UNCHANGED <<driverVars, flags, files, shape, printed, returned, transformLocals>>

ReadSplitSmall ==
    /\ pc = "read_split_small"
    /\ IF flags.load_split_small
       THEN IF "split_small.pth" \in files
            THEN /\ raw' = Loaded(shape, "split_small.pth")
                 /\ read_output' = Put(read_output, "split_small", raw')
                 /\ Goto("read_split_large")
            ELSE /\ Raise("FileNotFoundError", "ReadFile")
                 /\ UNCHANGED <<raw, read_output>>
       ELSE /\ Goto("read_split_large")
            /\ UNCHANGED <<raw, read_output>>
    /\ UNCHANGED <<driverVars, flags, files, shape, printed, returned, transformLocals>>

\* try: raw = torch.load(...)  except: print(...)  -- then output[...] = raw
ReadSplitLarge ==
    /\ pc = "read_split_large"
    /\ IF flags.load_split_large
       THEN /\ IF "split_large.pth" \in files
               THEN /\ raw' = Loaded(shape, "split_large.pth")
                    /\ printed' = printed
               ELSE /\ raw' = raw
                    /\ printed' = printed \o <<"Error!!", shape>>
            /\ IF raw' = Unbound
               THEN /\ Raise("UnboundLocalError", "ReadFile")
                    /\ UNCHANGED read_output
               ELSE /\ read_output' = Put(read_output, "split_large", raw')
                    /\ Goto("read_occu")
       ELSE /\ Goto("read_occu")
            /\ UNCHANGED <<raw, read_output, printed>>
    /\ UNCHANGED <<driverVars, flags, files, shape, returned, transformLocals>>

ReadOccu ==
    /\ pc = "read_occu"
    /\ IF flags.load_occu
       THEN IF "points.npz" \in files
            THEN /\ raw' = Loaded(shape, "points.npz")
                 /\ read_output' = Put(read_output, "occu", OccuOf(shape))
                 /\ Goto("read_sdf")
            ELSE /\ Raise("FileNotFoundError", "ReadFile")
                 /\ UNCHANGED <<raw, read_output>>
       ELSE /\ Goto("read_sdf")
            /\ UNCHANGED <<raw, read_output>>
    /\ UNCHANGED <<driverVars, flags, files, shape, printed, returned, transformLocals>>

ReadSdf ==
    /\ pc = "read_sdf"
    /\ IF flags.load_sdf
       THEN IF "sdf.npz" \in files
            THEN /\ raw' = Loaded(shape, "sdf.npz")
                 /\ read_output' = Put(read_output, "sdf", SdfFieldOf(shape))
                 /\ Goto("read_return")
            ELSE /\ Raise("FileNotFoundError", "ReadFile")
                 /\ UNCHANGED <<raw, read_output>>
       ELSE /\ Goto("read_return")
            /\ UNCHANGED <<raw, read_output>>
    /\ UNCHANGED <<driverVars, flags, files, shape, printed, returned, transformLocals>>

ReadReturn ==
    /\ pc = "read_return"
    /\ returned' = returned \cup {"ReadFile"}
    /\ Goto("read_done")
    /\ UNCHANGED <<driverVars, flags, files, shape, printed, raw, read_output, transformLocals>>

\* the dataset hands ReadFile's mapping to TransformShape.__call__ (output = {})
GetItem ==
    /\ pc = "read_done"
    /\ sample' = read_output
    /\ output' = EmptyDict
    /\ Goto("octree")
    /\ UNCHANGED <<driverVars, flags, files, shape, printed, raw, read_output, returned,
                   sdf_samples, on_surf, off_surf, result>>

(***************************************************************************)
(* TransformShape: the sampling helpers                                    *)
(***************************************************************************)
\* Points.clip(min=-1, max=1) belongs to the ocnn package, which the
\* repository only calls.  The model leaves both readings of it open: the
\* coordinates are clamped into the box (spec section 4.2), or the points
\* outside the box are dropped together with their normals and features.
ClampRat(a) ==
    IF RatLe(Rat(1), a) THEN Rat(1)
    ELSE IF RatLe(a, Rat(-1)) THEN Rat(-1)
    ELSE a

ClampRows(rows) == [k \in DOMAIN rows |-> [c \in DOMAIN rows[k] |-> ClampRat(rows[k][c])]]

InBox(row) ==
    \A c \in DOMAIN row : RatLe(Rat(-1), row[c]) /\ RatLe(row[c], Rat(1))

Keep(rows, mask) ==
    LET F[i \in 0..Len(rows)] ==
            IF i = 0 THEN <<>>
            ELSE IF mask[i] THEN Append(F[i - 1], rows[i]) ELSE F[i - 1]
    IN  F[Len(rows)]

PointsClip(points_gt) ==
    LET mask == [k \in DOMAIN points_gt.points |-> InBox(points_gt.points[k])]
    IN  { [points_gt EXCEPT !.points = ClampRows(points_gt.points)],
          [points   |-> Keep(points_gt.points, mask),
           normals  |-> Keep(points_gt.normals, mask),
           features |-> IF points_gt.features.present
                        THEN Array(Keep(points_gt.features.rows, mask))
                        ELSE NoneValue] }

\* the values process_points_cloud may return for a well-formed point cloud
ProcessPointsCloud(point_cloud) ==
    LET points_gt == [points   |-> DivRows(point_cloud.points, flags.point_scale),
                      normals  |-> point_cloud.normals,
                      features |-> IF flags.load_color THEN point_cloud.colors
                                   ELSE NoneValue]
    IN  { [points |-> p] : p \in PointsClip(points_gt) }

\* the points are gathered without the division by point_scale
SampleSdfUnscaled(field, rand_idx) ==
    [pos  |-> Gather(field.points, rand_idx),
     sdf  |-> Gather(field.sdf, rand_idx),
     grad |-> Gather(field.grad, rand_idx)]

SampleSdf(field, rand_idx) ==
    [pos  |-> Gather(DivRows(field.points, flags.point_scale), rand_idx),
     sdf  |-> Gather(field.sdf, rand_idx),
     grad |-> Gather(field.grad, rand_idx)]

SampleOnSurface(points, normals, rand_idx) ==
    [pos  |-> Gather(points, rand_idx),
     sdf  |-> Zeros(flags.point_sample_num),
     grad |-> Gather(normals, rand_idx)]

\* xyz / (xyz.norm(p=2, dim=1, keepdim=True) + 1.0e-6): kept symbolic
Normalized(row) == [direction_of |-> row]

\* the dummy sdf is left at zero, as for the on-surface samples
SampleOffSurfaceZeroSdf(xyz, rand_idx) ==
    LET pos == Gather(DivRows(xyz, flags.point_scale), rand_idx)
    IN  [pos  |-> pos,
         sdf  |-> Zeros(flags.point_sample_num),
         grad |-> [k \in DOMAIN pos |-> Normalized(pos[k])]]

SampleOffSurface(xyz, rand_idx) ==
    LET pos == Gather(DivRows(xyz, flags.point_scale), rand_idx)
    IN  [pos  |-> pos,
         sdf  |-> MinusOnes(flags.point_sample_num),
         grad |-> [k \in DOMAIN pos |-> Normalized(pos[k])]]

\* the dict built from on_surf and off_surf by torch.cat(..., dim=0)
CatSamples(on, off) ==
    [pos  |-> on.pos \o off.pos,
     grad |-> on.grad \o off.grad,
     sdf  |-> on.sdf \o off.sdf]

(***************************************************************************)
(* TransformShape.__call__, one action per flag-gated block                *)
(***************************************************************************)
readLocals == <<files, shape, printed, raw, read_output>>

TransformOctree ==
    /\ pc = "octree"
    /\ IF flags.load_octree
       THEN IF "octree_in" \in DOMAIN sample
            THEN /\ output' = Put(output, "octree_in", sample["octree_in"])
                 /\ Goto("pointcloud")
            ELSE /\ Raise("KeyError", "TransformShape")
                 /\ UNCHANGED output
       ELSE /\ Goto("pointcloud")
            /\ UNCHANGED output
    /\ UNCHANGED <<driverVars, flags, readLocals, returned, sample, sdf_samples, on_surf,
                   off_surf, result>>

\* output = self.process_points_cloud(sample['point_cloud'])
TransformPointcloud ==
    /\ pc = "pointcloud"
    /\ IF flags.load_pointcloud
       THEN IF "point_cloud" \notin DOMAIN sample
            THEN /\ Raise("KeyError", "TransformShape")
                 /\ UNCHANGED output
            ELSE IF flags.load_color /\ ~sample["point_cloud"].colors.present
                 THEN /\ Raise("TypeError", "TransformShape")
                      /\ UNCHANGED output
                 ELSE /\ output' \in ProcessPointsCloud(sample["point_cloud"])
                      /\ Goto("split_small")
       ELSE /\ Goto("split_small")
            /\ UNCHANGED output
    /\ UNCHANGED <<driverVars, flags, readLocals, returned, sample, sdf_samples, on_surf,
                   off_surf, result>>

TransformSplitSmall ==
    /\ pc = "split_small"
    /\ IF flags.load_split_small
       THEN IF "split_small" \in DOMAIN sample
            THEN /\ output' = Put(output, "split_small", sample["split_small"])
                 /\ Goto("split_large")
            ELSE /\ Raise("KeyError", "TransformShape")
                 /\ UNCHANGED output
       ELSE /\ Goto("split_large")
            /\ UNCHANGED output
    /\ UNCHANGED <<driverVars, flags, readLocals, returned, sample, sdf_samples, on_surf,
                   off_surf, result>>

TransformSplitLarge ==
    /\ pc = "split_large"
    /\ IF flags.load_split_large
       THEN IF "split_large" \in DOMAIN sample
            THEN /\ output' = Put(output, "split_large", sample["split_large"])
                 /\ Goto("sdf")
            ELSE /\ Raise("KeyError", "TransformShape")
                 /\ UNCHANGED output
       ELSE /\ Goto("sdf")
            /\ UNCHANGED output
    /\ UNCHANGED <<driverVars, flags, readLocals, returned, sample, sdf_samples, on_surf,
                   off_surf, result>>

\* sdf_samples = self.sample_sdf(sample['sdf']); output.update(sdf_samples)
TransformSdf ==
    /\ pc = "sdf"
    /\ IF flags.load_sdf
       THEN IF "sdf" \notin DOMAIN sample
            THEN /\ Raise("KeyError", "TransformShape")
                 /\ UNCHANGED <<output, sdf_samples>>
            ELSE IF Len(sample["sdf"].points) = 0
                 THEN /\ Raise("ValueError", "TransformShape")
                      /\ UNCHANGED <<output, sdf_samples>>
                 ELSE \E rand_idx \in RandomChoice(Len(sample["sdf"].points),
                                                   flags.point_sample_num) :
                        /\ sdf_samples' = SampleSdf(sample["sdf"], rand_idx)
                        /\ output' = Update(output, sdf_samples')
                        /\ Goto("surf")
       ELSE /\ Goto("surf")
            /\ UNCHANGED <<output, sdf_samples>>
    /\ UNCHANGED <<driverVars, flags, readLocals, returned, sample, on_surf, off_surf, result>>

\* the sample_surf_points block: on_surf, off_surf, sdf_samples, output.update
TransformSurf ==
    /\ pc = "surf"
    /\ IF flags.sample_surf_points
       THEN IF "points" \notin DOMAIN sample \/ "normals" \notin DOMAIN sample
            THEN /\ Raise("KeyError", "TransformShape")
                 /\ UNCHANGED <<output, sdf_samples, on_surf, off_surf>>
            ELSE IF Len(sample["points"]) = 0
                 THEN /\ Raise("ValueError", "TransformShape")
                      /\ UNCHANGED <<output, sdf_samples, on_surf, off_surf>>
                 ELSE \E on_idx \in RandomChoice(Len(sample["points"]),
                                                 flags.point_sample_num) :
                        /\ on_surf' = SampleOnSurface(sample["points"],
                                                      sample["normals"], on_idx)
                        /\ IF "sdf" \notin DOMAIN sample
                           THEN /\ Raise("KeyError", "TransformShape")
                                /\ UNCHANGED <<output, sdf_samples, off_surf>>
                           ELSE IF Len(sample["sdf"].points) = 0
                                THEN /\ Raise("ValueError", "TransformShape")
                                     /\ UNCHANGED <<output, sdf_samples, off_surf>>
                                ELSE \E off_idx \in RandomChoice(Len(sample["sdf"].points),
                                                                 flags.point_sample_num) :
                                       /\ off_surf' = SampleOffSurface(sample["sdf"].points,
                                                                       off_idx)
                                       /\ sdf_samples' = CatSamples(on_surf', off_surf')
                                       /\ output' = Update(output, sdf_samples')
                                       /\ Goto("return")
       ELSE /\ Goto("return")
            /\ UNCHANGED <<output, sdf_samples, on_surf, off_surf>>
    /\ UNCHANGED <<driverVars, flags, readLocals, returned, sample, result>>

TransformReturn ==
    /\ pc = "return"
    /\ result' = output
    /\ returned' = returned \cup {"TransformShape"}
    /\ Goto("done")
    /\ UNCHANGED <<driverVars, flags, readLocals, sample, output, sdf_samples, on_surf, off_surf>>

ReadFileCall ==
    \/ ReadOctree
    \/ ReadPointcloud
    \/ ReadSplitSmall
    \/ ReadSplitLarge
    \/ ReadOccu
    \/ ReadSdf
    \/ ReadReturn

TransformShapeCall ==
    \/ TransformOctree
    \/ TransformPointcloud
    \/ TransformSplitSmall
    \/ TransformSplitLarge
    \/ TransformSdf
    \/ TransformSurf
    \/ TransformReturn

(***************************************************************************)
(* The pipeline: ReadFile on a shape directory, then TransformShape on the *)
(* mapping it returned, under one flag set                                 *)
(***************************************************************************)
FlagSets ==
    [load_octree : BOOLEAN, load_pointcloud : BOOLEAN, load_color : BOOLEAN,
     load_split_small : BOOLEAN, load_split_large : BOOLEAN,
     load_occu : BOOLEAN, load_sdf : BOOLEAN, sample_surf_points : BOOLEAN,
     point_sample_num : 1..MaxSample, point_scale : PointScales]

Directories ==
    { FileNames \ gone : gone \in { g \in SUBSET FileNames : Cardinality(g) <= MaxMissing } }

Init ==
    /\ flags \in FlagSets
    /\ shape \in Shapes
    /\ files \in Directories
    /\ pc = "read_octree"
    /\ err = NoError
    /\ printed = <<>>
    /\ raw = Unbound
    /\ read_output = EmptyDict
    /\ sample = EmptyDict
    /\ output = EmptyDict
    /\ sdf_samples = NoSamples
    /\ on_surf = NoSamples
    /\ off_surf = NoSamples
    /\ result = EmptyDict
    /\ returned = {}
    /\ IdleDrivers

Next ==
    \/ ReadFileCall
    \/ GetItem
    \/ TransformShapeCall

Spec == Init /\ [][Next]_vars

(***************************************************************************)
(* TransformShape.__call__ called directly: the caller supplies the sample *)
(* mapping, with the point set also at the top level ('points',            *)
(* 'normals'), and may leave keys out                                      *)
(***************************************************************************)
MaxAbsent == 1      \* at most this many keys are left out of a caller's sample

SampleKeys == {"octree_in", "point_cloud", "split_small", "split_large", "sdf",
               "points", "normals"}

FullSample(s, colors) ==
    [k \in SampleKeys |->
        CASE k = "octree_in"   -> [octree_of |-> s]
          [] k = "point_cloud" -> [points  |-> PointCloudOf(s).points,
                                   normals |-> PointCloudOf(s).normals,
                                   colors  |-> IF colors THEN Array(ColorsOf(s))
                                               ELSE NoneValue]
          [] k = "split_small" -> Loaded(s, "split_small.pth")
          [] k = "split_large" -> Loaded(s, "split_large.pth")
          [] k = "sdf"         -> SdfFieldOf(s)
          [] k = "points"      -> PointCloudOf(s).points
          [] k = "normals"     -> PointCloudOf(s).normals]

Restrict(m, keys) == [k \in DOMAIN m \cap keys |-> m[k]]

CallerSamples(s) ==
    { Restrict(FullSample(s, colors), SampleKeys \ gone) :
        colors \in BOOLEAN,
        gone \in { g \in SUBSET SampleKeys : Cardinality(g) <= MaxAbsent } }

IdleRead ==
    /\ files = {}
    /\ err = NoError
    /\ printed = <<>>
    /\ raw = Unbound
    /\ read_output = EmptyDict
    /\ returned = {}

FreshCall ==
    /\ pc = "octree"
    /\ output = EmptyDict
    /\ sdf_samples = NoSamples
    /\ on_surf = NoSamples
    /\ off_surf = NoSamples
    /\ result = EmptyDict

InitTransform ==
    /\ flags \in { f \in FlagSets : ~f.load_occu }
    /\ shape \in Shapes
    /\ sample \in CallerSamples(shape)
    /\ IdleRead
    /\ FreshCall
    /\ IdleDrivers

SpecTransform == InitTransform /\ [][TransformShapeCall]_vars

(***************************************************************************)
(* sample_sdf on arbitrary index-aligned SDF fields: the call with only    *)
(* load_sdf enabled                                                        *)
(***************************************************************************)
MaxRows == 2        \* an SDF field has 0..MaxRows rows

FieldPoints == {R3(0, 0, 0), R3(2, -1, 3)}

FieldGrads == {R3(1, 0, 0), R3(0, 0, -1)}

FieldSdfs == {Rat(-2), Rat(1)}

SdfFields ==
    UNION { [points : [1..m -> FieldPoints], grad : [1..m -> FieldGrads],
             sdf : [1..m -> FieldSdfs]] : m \in 0..MaxRows }

InitSampleSdf ==
    /\ flags \in { f \in FlagSets :
                     /\ f.load_sdf
                     /\ ~f.load_octree /\ ~f.load_pointcloud /\ ~f.load_color
                     /\ ~f.load_split_small /\ ~f.load_split_large
                     /\ ~f.load_occu /\ ~f.sample_surf_points }
    /\ shape = ""
    /\ \E field \in SdfFields : sample = [sdf |-> field]
    /\ IdleRead
    /\ FreshCall
    /\ IdleDrivers

SpecSampleSdf == InitSampleSdf /\ [][TransformShapeCall]_vars

(***************************************************************************)
(* Properties of the data pipeline                                         *)
(***************************************************************************)
TransformReturned == "TransformShape" \in returned

ReadReturned == "ReadFile" \in returned

\* the output keys of the enabled steps of TransformShape.__call__
StepKeys ==
    (IF flags.load_octree THEN {"octree_in"} ELSE {})
    \cup (IF flags.load_pointcloud THEN {"points"} ELSE {})
    \cup (IF flags.load_split_small THEN {"split_small"} ELSE {})
    \cup (IF flags.load_split_large THEN {"split_large"} ELSE {})
    \cup (IF flags.load_sdf \/ flags.sample_surf_points
          THEN {"pos", "sdf", "grad"} ELSE {})

\* C1: the mapping TransformShape.__call__ returns holds the key of every
\* enabled step, and with load_octree enabled its 'octree_in' is the
\* sample's 'octree_in'.
C1_NoStepKeyDropped ==
    TransformReturned =>
        /\ StepKeys \subseteq DOMAIN result
        /\ flags.load_octree =>
              /\ "octree_in" \in DOMAIN result
              /\ result["octree_in"] = sample["octree_in"]

\* C2: whenever ReadFile.__call__ returned, TransformShape.__call__ on the
\* returned mapping under the same flags ends without a missing-key error.
C2_StagesCompose ==
    ReadReturned => ~(pc = "raised" /\ err.type = "KeyError")

\* the files of the enabled loads other than split_large can all be read
OtherEnabledFilesLoad ==
    /\ flags.load_octree => "octree.pth" \in files
    /\ flags.load_pointcloud => "pointcloud.npz" \in files
    /\ flags.load_pointcloud /\ flags.load_color => "color.npz" \in files
    /\ flags.load_split_small => "split_small.pth" \in files
    /\ flags.load_occu => "points.npz" \in files
    /\ flags.load_sdf => "sdf.npz" \in files

PastSplitLarge ==
    pc \notin {"read_octree", "read_pointcloud", "read_split_small", "read_split_large"}

\* C3: with load_split_large enabled and split_large.pth unreadable (every
\* other enabled file readable), ReadFile.__call__ prints the location and
\* does not raise, whatever the other load flags are.
C3_SplitLargeFailureCaught ==
    (flags.load_split_large /\ "split_large.pth" \notin files /\ OtherEnabledFilesLoad)
        => /\ ~(pc = "raised" /\ err.in = "ReadFile")
           /\ PastSplitLarge => printed = <<"Error!!", shape>>

\* the keys of the enabled loads of ReadFile.__call__
LoadKeys ==
    (IF flags.load_octree THEN {"octree_in"} ELSE {})
    \cup (IF flags.load_pointcloud THEN {"point_cloud"} ELSE {})
    \cup (IF flags.load_split_small THEN {"split_small"} ELSE {})
    \cup (IF flags.load_split_large THEN {"split_large"} ELSE {})
    \cup (IF flags.load_occu THEN {"occu"} ELSE {})
    \cup (IF flags.load_sdf THEN {"sdf"} ELSE {})

\* C4: the mapping ReadFile.__call__ returns has exactly the keys of the
\* enabled load flags; load_color adds none, and with the six flags false
\* the mapping is empty.
C4_ReadKeysAreEnabledFlags ==
    ReadReturned =>
        /\ DOMAIN read_output = LoadKeys
        /\ LoadKeys = {} => read_output = EmptyDict

C4_Witness ==
    /\ pc = "read_done"
    /\ flags.load_pointcloud /\ flags.load_color /\ flags.load_occu
    /\ flags.load_split_large /\ ~flags.load_octree /\ ~flags.load_sdf
    /\ files = FileNames
    /\ DOMAIN read_output = {"point_cloud", "split_large", "occu"}

\* C5: with sample_surf_points enabled the returned 'pos', 'grad' and 'sdf'
\* have 2 * point_sample_num rows each; the first point_sample_num rows of
\* 'sdf' are 0 and the remaining ones are -1.
C5_SurfaceSamplesShape ==
    (TransformReturned /\ flags.sample_surf_points) =>
        LET n == flags.point_sample_num
        IN  /\ Len(result["pos"]) = 2 * n
            /\ Len(result["grad"]) = 2 * n
            /\ Len(result["sdf"]) = 2 * n
            /\ \A k \in 1..n : RatEq(result["sdf"][k], Rat(0))
            /\ \A k \in (n + 1)..(2 * n) : RatEq(result["sdf"][k], Rat(-1))

C5_Witness ==
    /\ TransformReturned
    /\ flags.sample_surf_points /\ ~flags.load_sdf
    /\ flags.point_sample_num = 2
    /\ Len(sample["points"]) >= 1
    /\ Len(result["sdf"]) = 4

SdfStepDone == flags.load_sdf /\ pc \in {"surf", "return", "done"}

\* C6: sample_sdf returns point_sample_num rows of 'pos', 'sdf' and 'grad',
\* and each output row k is one input row i: pos[k] = points[i] / point_scale,
\* sdf[k] = sdf[i], grad[k] = grad[i].
C6_SampleSdfGathers ==
    SdfStepDone =>
        LET field == sample["sdf"]
            n == flags.point_sample_num
        IN  /\ Len(sdf_samples.pos) = n
            /\ Len(sdf_samples.sdf) = n
            /\ Len(sdf_samples.grad) = n
            /\ \A k \in 1..n :
                  \E i \in 1..Len(field.points) :
                     /\ \A c \in 1..3 :
                          /\ sdf_samples.pos[k][c][1] * field.points[i][c][2]
                               * flags.point_scale
                             = field.points[i][c][1] * sdf_samples.pos[k][c][2]
                     /\ sdf_samples.sdf[k] = field.sdf[i]
                     /\ sdf_samples.grad[k] = field.grad[i]

C6_Witness ==
    /\ SdfStepDone
    /\ flags.point_sample_num = 2 /\ flags.point_scale = 2
    /\ Len(sample["sdf"].points) = 2
    /\ sample["sdf"].sdf[1] # sample["sdf"].sdf[2]
    /\ sdf_samples.sdf = <<sample["sdf"].sdf[2], sample["sdf"].sdf[2]>>

SampleKeysOut == {"pos", "sdf", "grad"}

\* C7: with load_sdf and sample_surf_points both enabled, the surface block
\* leaves in 'pos', 'sdf' and 'grad' exactly the concatenated on-surface and
\* off-surface samples (not the sample_sdf rows), changes no other key, and
\* the call returns that mapping.
C7_SurfaceSamplesWin ==
    [][ /\ (pc = "surf" /\ pc' = "return" /\ flags.load_sdf /\ flags.sample_surf_points)
           => /\ output'["pos"] = on_surf'.pos \o off_surf'.pos
              /\ output'["sdf"] = on_surf'.sdf \o off_surf'.sdf
              /\ output'["grad"] = on_surf'.grad \o off_surf'.grad
              /\ Len(output'["pos"]) = 2 * flags.point_sample_num
              /\ output'["pos"] # output["pos"]
              /\ DOMAIN output' = DOMAIN output
              /\ \A k \in DOMAIN output \ SampleKeysOut : output'[k] = output[k]
        /\ (pc = "return" /\ pc' = "done") => result' = output
      ]_vars

C7_Witness ==
    /\ TransformReturned
    /\ flags.load_sdf /\ flags.sample_surf_points /\ flags.load_octree
    /\ ~flags.load_pointcloud
    /\ DOMAIN result = {"octree_in", "pos", "sdf", "grad"}
    /\ Len(result["pos"]) = 2 * flags.point_sample_num

(***************************************************************************)
(* train.py: train_main_worker, one process per distributed rank.          *)
(* Printing, the progress bar and checkpoint saving change nothing the     *)
(* loop reads and are left out.                                            *)
(***************************************************************************)
MaxRanks == 2          \* world size ranges over 1..MaxRanks
MaxEpochLength == 2    \* len(train_loader) and display_freq range over 1..MaxEpochLength
MaxEpochs == 2         \* opt.epochs ranges over 1..MaxEpochs

AllRanks == 0..(MaxRanks - 1)

\* the ranks of this run: get_rank() ranges over 0..get_world_size()-1
Ranks == 0..(opt.world_size - 1)

total_iters == opt.epoch_length * opt.epochs

NoBatch == [kind |-> "none", iter_num |-> -1, epoch |-> -1]

IdleData ==
    /\ flags = EmptyDict
    /\ shape = ""
    /\ pc = "idle"
    /\ sample = EmptyDict
    /\ output = EmptyDict
    /\ sdf_samples = NoSamples
    /\ on_surf = NoSamples
    /\ off_surf = NoSamples
    /\ result = EmptyDict
    /\ IdleRead

TrainOptions ==
    { o \in [world_size : 1..MaxRanks, epoch_length : 1..MaxEpochLength,
              epochs : 1..MaxEpochs, start_iter : 0..(MaxEpochLength * MaxEpochs),
              display_freq : 1..MaxEpochLength, debug : {"0", "1"},
              model : {"vae", "union"}, update_learning_rate : BOOLEAN] :
        o.start_iter <= o.epoch_length * o.epochs }

InitTrain ==
    /\ opt \in TrainOptions
    /\ train_pc = [r \in Ranks |-> "start"]
    /\ iter_i = [r \in Ranks |-> 0]
    /\ epoch = [r \in Ranks |-> 0]
    /\ data = [r \in Ranks |-> NoBatch]
    /\ lr_epoch = [r \in Ranks |-> -1]
    /\ gen_pc = <<>>
    /\ gen_iter = <<>>
    /\ loads = {}
    /\ sampled = <<>>
    /\ IdleData

\* epoch = start_iter // epoch_length, before the loop
TrainStart(r) ==
    /\ r \in Ranks
    /\ train_pc[r] = "start"
    /\ epoch' = [epoch EXCEPT ![r] = opt.start_iter \div opt.epoch_length]
    /\ iter_i' = [iter_i EXCEPT ![r] = opt.start_iter]
    /\ train_pc' = [train_pc EXCEPT ![r] = "loop"]
    /\ UNCHANGED <<data, lr_epoch>>
    /\ UNCHANGED <<dataVars, opt, genVars>>

\* the loop header and the training step: data['epoch'] = epoch
TrainStep(r) ==
    /\ r \in Ranks
    /\ train_pc[r] = "loop"
    /\ IF iter_i[r] < total_iters
       THEN /\ data' = [data EXCEPT ![r] = [kind |-> "train", iter_num |-> iter_i[r],
                                            epoch |-> epoch[r]]]
            /\ train_pc' = [train_pc EXCEPT ![r] = "rank0"]
       ELSE /\ train_pc' = [train_pc EXCEPT ![r] = "done"]
            /\ UNCHANGED data
    /\ UNCHANGED <<iter_i, epoch, lr_epoch>>
    /\ UNCHANGED <<dataVars, opt, genVars>>

\* the second `if get_rank() == 0:` block, which holds `epoch += 1`
TrainRankZero(r) ==
    /\ r \in Ranks
    /\ train_pc[r] = "rank0"
    /\ IF r = 0 /\ iter_i[r] % opt.epoch_length = opt.epoch_length - 1
       THEN epoch' = [epoch EXCEPT ![r] = @ + 1]
       ELSE UNCHANGED epoch
    /\ train_pc' = [train_pc EXCEPT ![r] = "display"]
    /\ UNCHANGED <<iter_i, data, lr_epoch>>
    /\ UNCHANGED <<dataVars, opt, genVars>>

\* display every n batches: `continue`, the vae evaluation batch, or a sample
TrainDisplay(r) ==
    /\ r \in Ranks
    /\ train_pc[r] = "display"
    /\ IF iter_i[r] % opt.display_freq = 0
       THEN IF iter_i[r] = 0 /\ opt.debug = "0"
            THEN /\ iter_i' = [iter_i EXCEPT ![r] = @ + 1]
                 /\ train_pc' = [train_pc EXCEPT ![r] = "loop"]
                 /\ UNCHANGED data
            ELSE /\ IF opt.model = "vae"
                    THEN data' = [data EXCEPT ![r] = [kind |-> "test",
                                      iter_num |-> iter_i[r], epoch |-> epoch[r]]]
                    ELSE UNCHANGED data
                 /\ train_pc' = [train_pc EXCEPT ![r] = "lr"]
                 /\ UNCHANGED iter_i
       ELSE /\ train_pc' = [train_pc EXCEPT ![r] = "lr"]
            /\ UNCHANGED <<iter_i, data>>
    /\ UNCHANGED <<epoch, lr_epoch>>
    /\ UNCHANGED <<dataVars, opt, genVars>>

\* model.update_learning_rate_cos(epoch, opt), then the next iteration
TrainUpdateLr(r) ==
    /\ r \in Ranks
    /\ train_pc[r] = "lr"
    /\ IF opt.update_learning_rate
       THEN lr_epoch' = [lr_epoch EXCEPT ![r] = epoch[r]]
       ELSE UNCHANGED lr_epoch
    /\ iter_i' = [iter_i EXCEPT ![r] = @ + 1]
    /\ train_pc' = [train_pc EXCEPT ![r] = "loop"]
    /\ UNCHANGED <<epoch, data>>
    /\ UNCHANGED <<dataVars, opt, genVars>>

NextTrain ==
    \E r \in AllRanks :
        \/ TrainStart(r)
        \/ TrainStep(r)
        \/ TrainRankZero(r)
        \/ TrainDisplay(r)
        \/ TrainUpdateLr(r)

SpecTrain == InitTrain /\ [][NextTrain]_vars

\* C9: on every rank, the epoch attached to the training batch of iteration
\* iter_i is iter_i // epoch_length.
C9_EpochFollowsIteration ==
    \A r \in Ranks :
        data[r].kind = "train" => data[r].epoch = data[r].iter_num \div opt.epoch_length

(***************************************************************************)
(* train.py: generate, one process per distributed rank                    *)
(***************************************************************************)
MaxTotalNum == 3       \* category_5_to_num[opt.category] ranges over 1..MaxTotalNum

TotalIters == 100000000

\* the indices a rank can compute before it stops
SplitIndices == 0..(MaxTotalNum + MaxRanks - 1)

GenerateOptions ==
    { o \in [world_size : 1..MaxRanks, total_num : 1..MaxTotalNum,
              split_dir : BOOLEAN, split_files : SUBSET SplitIndices] :
        ~o.split_dir => o.split_files = {} }

InitGenerate ==
    /\ opt \in GenerateOptions
    /\ gen_pc = [r \in Ranks |-> "loop"]
    /\ gen_iter = [r \in Ranks |-> 0]
    /\ loads = {}
    /\ sampled = [i \in SplitIndices |-> 0]
    /\ train_pc = <<>>
    /\ iter_i = <<>>
    /\ epoch = <<>>
    /\ data = <<>>
    /\ lr_epoch = <<>>
    /\ IdleData

\* one pass through the loop body of generate
GenerateIteration(r) ==
    /\ r \in Ranks
    /\ gen_pc[r] = "loop"
    /\ UNCHANGED <<dataVars, opt, trainVars>>
    /\ IF gen_iter[r] >= TotalIters
       THEN /\ gen_pc' = [gen_pc EXCEPT ![r] = "done"]
            /\ UNCHANGED <<gen_iter, loads, sampled>>
       ELSE LET result_index == gen_iter[r] * opt.world_size + r
            IN  /\ loads' = IF opt.split_dir THEN loads \cup {result_index} ELSE loads
                /\ IF opt.split_dir /\ result_index \notin opt.split_files
                   THEN /\ gen_pc' = [gen_pc EXCEPT ![r] = "raised"]
                        /\ UNCHANGED <<gen_iter, sampled>>
                   ELSE IF result_index >= opt.total_num
                        THEN /\ gen_pc' = [gen_pc EXCEPT ![r] = "done"]
                             /\ UNCHANGED <<gen_iter, sampled>>
                        ELSE /\ sampled' = [sampled EXCEPT ![result_index] = @ + 1]
                             /\ gen_iter' = [gen_iter EXCEPT ![r] = @ + 1]
                             /\ UNCHANGED gen_pc

NextGenerate == \E r \in AllRanks : GenerateIteration(r)

SpecGenerate == InitGenerate /\ [][NextGenerate]_vars

\* C10: (with the split file of every index below total_num on disk) no rank
\* fails or touches an index >= total_num, a rank stops at its first
\* result_index >= total_num, and once all ranks stopped every index
\* 0..total_num-1 was sampled exactly once and no other index was.
C10_GenerateCoversOnce ==
    (0..(opt.total_num - 1)) \subseteq opt.split_files \/ ~opt.split_dir =>
        /\ \A r \in Ranks : gen_pc[r] # "raised"
        /\ \A i \in loads : i < opt.total_num
        /\ \A i \in SplitIndices : sampled[i] <= 1 /\ (i >= opt.total_num => sampled[i] = 0)
        /\ \A r \in Ranks :
              gen_pc[r] = "done" =>
                  /\ gen_iter[r] * opt.world_size + r >= opt.total_num
                  /\ gen_iter[r] > 0 => (gen_iter[r] - 1) * opt.world_size + r < opt.total_num
        /\ (\A r \in Ranks : gen_pc[r] = "done") =>
              \A i \in 0..(opt.total_num - 1) : sampled[i] = 1

====
